---- MODULE Spec2Model ----
(***************************************************************************)
(* State-machine model of the Suggest autocomplete widget                  *)
(* (src/unnamed/part_002): debounce timer, overlapping asynchronous        *)
(* searches with the value-based staleness guard, rendering of the list,   *)
(* keyboard navigation, commit, and the instance registry with its shared  *)
(* document click listener.                                                *)
(*                                                                         *)
(* Time is counted in ticks; the debounce setting is Debounce ticks.       *)
(* A timeout whose remaining time is 0 may fire at any later moment, as a  *)
(* browser timer may run late.                                             *)
(***************************************************************************)
EXTENDS Integers, Sequences, FiniteSets, TLC

\* ---------------------------------------------------------------- bounds
MaxInst == 2        \* Suggest objects constructed in one run
NumFields == 2      \* input elements on the page
MaxItems == 3       \* longest collection a search returns (navigation)
MaxHits == 2        \* longest collection a search returns (searching)
NumRaw == 2         \* distinct raw items a search can return
MaxInflight == 2    \* searches awaiting their result, per instance
Debounce == 2       \* the debounce setting, in ticks
MaxMinLength == 2   \* largest minLength setting tried
MaxRun == 4         \* longest run of equal arrow keys that is counted
MaxAjaxCalls == 2   \* calls of the search.ajax function in one run
MaxQueryLen == 2    \* longest query given to mark.startsWith
MaxLabelLen == 3    \* longest label given to mark.startsWith
NumBtns == 5        \* buttons of the RadioButton group
MaxTextLen == 4     \* longest text of an element CopyText reads
MaxValueLen == 1    \* longest value of a form control CopyText reads
MaxTargets == 2     \* most elements a copyTarget selector matches
MaxWrites == 1      \* clipboard writes awaiting their result
MaxFired == 2       \* guarded actions counted for one confirmation dialog
MaxDirtyChecks == 3 \* listeners of one event that dirtyCheck() calls leave
MaxChanges == 3     \* change events counted since the last submit event
MaxPrompts == 3     \* leave-page prompts counted on one page
MaxInitial == 2     \* server-rendered items of a list
MaxAdds == 3        \* items added to a list

Insts == 1..MaxInst
Fields == 1..NumFields
Raw == 1..NumRaw
TimerIds == 1..2
Values == {"", "a", "ab"}
Keys == {"ArrowDown", "ArrowUp", "Enter", "Tab", "x"}
Errors == {"You have been logged out."}
CallbackErrors == {"labelFn failed"}

VARIABLES
  registry,      \* Suggest.#initializedEls: field -> instance, 0 = no entry
  docListeners,  \* click listeners Suggest has installed on document
  nextInst,      \* number of Suggest objects constructed so far
  status,        \* per instance: "none", "aborted", "live", "destroyed"
  field,         \* per instance: #inputEl (0 = null)
  minLength,     \* per instance: #settings.minLength
  hasEnterFn,    \* per instance: #settings.enterFn is configured
  value,         \* per field: the input element's value
  timers,        \* per instance: pending timeouts [id, left]
  timeoutId,     \* per instance: #timeoutId, 0 = undefined
  inflight,      \* per instance: refresh() calls suspended at the await
  list,          \* per instance: children of #listEl
  shown,         \* per instance: #listEl carries class 'show'
  spinner,       \* per instance: the searching indicator is visible
  domDamage,     \* per field: an ancestor of the field was removed
  ev,            \* history: the handler that ran last
  calls,         \* history: consumer callbacks invoked by the last handler
  sinceInput,    \* history: ticks since the instance's last input event
  burstCalls,    \* history: searchFn calls since the last input event
  typed,         \* history: field value after the last input event
  run,           \* history: current run of equal arrow-key presses
  quiet,         \* history: per instance, no user event since its last commit
  ajax,          \* one call of a function built by search.ajax
  mk,            \* one call of mark.startsWith
  radio,         \* a button group and the RadioButton bound to it
  copy,          \* a CopyText, the page it reads and the clipboard
  conf,          \* a Confirmation and its dialog
  dirty,         \* the page's dirtyCheck listeners and its navigation guard
  li             \* a list of items with its add and remove buttons

vars == <<registry, docListeners, nextInst, status, field, minLength,
          hasEnterFn, value, timers, timeoutId, inflight, list, shown,
          spinner, domDamage, ev, calls, sinceInput, burstCalls, typed, run,
          quiet, ajax, mk, radio, copy, conf, dirty, li>>

\* The state of the Suggest widget, and the state of everything else.
suggestVars == <<registry, docListeners, nextInst, status, field, minLength,
                 hasEnterFn, value, timers, timeoutId, inflight, list, shown,
                 spinner, domDamage, ev, calls, sinceInput, burstCalls, typed,
                 run, quiet>>
widgetVars == <<ajax, mk, radio, copy, conf, dirty, li>>
notAjax == <<suggestVars, mk, radio, copy, conf, dirty, li>>
notMark == <<suggestVars, ajax, radio, copy, conf, dirty, li>>
notRadio == <<suggestVars, ajax, mk, copy, conf, dirty, li>>
notCopy == <<suggestVars, ajax, mk, radio, conf, dirty, li>>
notConf == <<suggestVars, ajax, mk, radio, copy, dirty, li>>
notDirty == <<suggestVars, ajax, mk, radio, copy, conf, li>>
notItems == <<suggestVars, ajax, mk, radio, copy, conf, dirty>>

lifeVars == <<registry, docListeners, nextInst, status, field, minLength,
              hasEnterFn, domDamage>>
timeVars == <<timers, timeoutId, sinceInput, burstCalls, typed>>

\* ------------------------------------------------------- settings, items
\* labelFn of the settings: the text shown for (and committed from) a raw
\* item; raw 0 stands for the undefined suggestItem of a non-item element.
LabelFn(r) == IF r = 0 THEN "undefined" ELSE IF r = 1 THEN "ab" ELSE "a"

\* markFn of the settings (the default returns the label unmarked).
MarkFn(q, label, r) == label

\* One child of #listEl built by updateList for raw item r.
ItemEl(q, r) ==
  [kind |-> "item", raw |-> r, title |-> LabelFn(r),
   text |-> MarkFn(q, LabelFn(r), r), hover |-> FALSE, active |-> FALSE]

\* The child built by showError from template.errorEl.
ErrorEl(msg) ==
  [kind |-> "error", raw |-> 0, title |-> "", text |-> msg,
   hover |-> FALSE, active |-> FALSE]

\* The collections searchFn can resolve with.
ResultOfLen(n) == [k \in 1..n |-> ((k - 1) % NumRaw) + 1]
SearchResults == {ResultOfLen(n) : n \in 0..MaxItems}
SearchHits == {ResultOfLen(n) : n \in 0..MaxHits}

\* ev tells the last handler apart only when it was the timeout callback,
\* the settling of a search (resolved, rejected, or resolved with a callback
\* throwing during the render) or a Tab keydown on the open list; stale/late
\* describe the settled search; key is the key of a keydown event and sup
\* tells that its handler called preventDefault() and stopPropagation().
Ev(op, i, stale, late) ==
  [op |-> op, i |-> i, stale |-> stale, late |-> late, key |-> "", sup |-> FALSE]
NoEv == Ev("other", 0, FALSE, FALSE)
NoRun == [i |-> 0, dir |-> "none", k |-> 0, act |-> 0]
Call(fn, i, q, r, el) == [fn |-> fn, i |-> i, q |-> q, raw |-> r, el |-> el]

\* quiet[i] holds from a handler of instance i that committed (called
\* selectFn) until the next user event or API call that reaches i.
CommitIn(c) == \E k \in 1..Len(c) : c[k].fn = "selectFn"
NoCommit == [i \in Insts |-> FALSE]

HoverIdx(l) == {k \in 1..Len(l) : l[k].hover}
ActiveIdx(l) == {k \in 1..Len(l) : l[k].active}
\* querySelector('.hover') / querySelector('.active'): first match, 0 = null
FirstOf(S) == IF S = {} THEN 0 ELSE CHOOSE k \in S : \A m \in S : k <= m

\* ------------------------------------------------ the instance as a view
\* The mutable things a handler of instance i touches, as one record.
View(i) ==
  [val |-> value[field[i]], list |-> list[i], shown |-> shown[i],
   spin |-> spinner[i], fly |-> inflight[i], calls |-> <<>>, sup |-> FALSE]

Store(i, s) ==
  /\ value' = [value EXCEPT ![field[i]] = s.val]
  /\ list' = [list EXCEPT ![i] = s.list]
  /\ shown' = [shown EXCEPT ![i] = s.shown]
  /\ spinner' = [spinner EXCEPT ![i] = s.spin]
  /\ inflight' = [inflight EXCEPT ![i] = s.fly]
  /\ calls' = s.calls

\* Variant of Show that lacks the test for children.
ShowNoTest(s) == [s EXCEPT !.shown = TRUE]

\* show(): nothing when the list has no children.
Show(s) == IF Len(s.list) = 0 THEN s ELSE [s EXCEPT !.shown = TRUE]

\* hide()
Hide(s) == [s EXCEPT !.shown = FALSE]

\* clear()
Clear(i, s) ==
  [Hide(s) EXCEPT !.val = "", !.list = <<>>,
                  !.calls = Append(s.calls, Call("clearFn", i, "", 0, 0))]

\* Spinner.show() / Spinner.hide()
SpinnerShow(s) == [s EXCEPT !.spin = TRUE]
SpinnerHide(s) == [s EXCEPT !.spin = FALSE]

\* Variant of Refresh that lacks the minLength test.
RefreshNoMin(i, s) ==
  IF s.val = "" THEN SpinnerHide(Clear(i, s))
  ELSE [SpinnerShow(s) EXCEPT
          !.fly = Append(s.fly, [query |-> s.val, late |-> FALSE]),
          !.calls = Append(s.calls, Call("searchFn", i, s.val, 0, 0))]

\* refresh() up to the await: the two early returns, else the dispatch.
Refresh(i, s) ==
  IF s.val = "" THEN SpinnerHide(Clear(i, s))
  ELSE IF Len(s.val) < minLength[i] THEN s
  ELSE [SpinnerShow(s) EXCEPT
          !.fly = Append(s.fly, [query |-> s.val, late |-> FALSE]),
          !.calls = Append(s.calls, Call("searchFn", i, s.val, 0, 0))]

\* Variant of IsStale that reads the query after the await, so that it
\* always equals the field's value.
IsStaleNever(val, query) == val # val

\* The staleness guard of refresh(): the result is dropped when this holds.
IsStale(val, query) == val # query

\* Variant of UpdateList that skips a later item equal to the first one.
UpdateListNoRepeat(s, res) ==
  LET keep == {k \in 1..Len(res) : k = 1 \/ res[k] # res[1]}
      nth(m) == CHOOSE k \in keep : Cardinality({j \in keep : j < k}) = m - 1
  IN IF Len(res) > 0
       THEN Show([s EXCEPT !.list = [m \in 1..Cardinality(keep) |->
                                      ItemEl(s.val, res[nth(m)])]])
       ELSE [Hide(s) EXCEPT !.list = <<>>]

\* Variant of UpdateList that reuses the children already rendered, marks
\* included, instead of building new ones.
UpdateListReuse(s, res) ==
  IF Len(res) > 0
    THEN Show([s EXCEPT !.list = [k \in 1..Len(res) |->
                 IF k <= Len(s.list)
                   THEN [ItemEl(s.val, res[k]) EXCEPT !.hover = s.list[k].hover,
                                                      !.active = s.list[k].active]
                   ELSE ItemEl(s.val, res[k])]])
    ELSE [Hide(s) EXCEPT !.list = <<>>]

\* updateList(suggest, list)
UpdateList(s, res) ==
  IF Len(res) > 0
    THEN Show([s EXCEPT !.list = [k \in 1..Len(res) |-> ItemEl(s.val, res[k])]])
    ELSE [Hide(s) EXCEPT !.list = <<>>]

\* Variant of ShowError that keeps the children already rendered.
ShowErrorAppend(s, msg) == Show([Hide(s) EXCEPT !.list = Append(s.list, ErrorEl(msg))])

\* showError(suggest, error)
ShowError(s, msg) == Show([Hide(s) EXCEPT !.list = <<ErrorEl(msg)>>])

\* Variant of Resolved that hides the list when it drops a stale result.
ResolvedHideStale(s, q, res) ==
  IF IsStale(s.val, q) THEN Hide(s) ELSE SpinnerHide(UpdateList(s, res))

\* refresh() after the await resolved with res, for the call dispatched
\* with query q.
Resolved(s, q, res) ==
  IF IsStale(s.val, q) THEN s ELSE SpinnerHide(UpdateList(s, res))

\* refresh() after the await rejected: the catch block.
Rejected(s, msg) == SpinnerHide(ShowError(s, msg))

\* Variant of Select that leaves the marks of the other children alone.
SelectKeepMarks(i, s, k) ==
  IF k = 0 THEN s
  ELSE [Hide(s) EXCEPT
          !.val = LabelFn(s.list[k].raw),
          !.list = [m \in 1..Len(s.list) |->
                      IF m = k THEN [s.list[m] EXCEPT !.hover = FALSE, !.active = TRUE]
                      ELSE s.list[m]],
          !.calls = Append(s.calls, Call("selectFn", i, "", s.list[k].raw, k))]

\* #select(itemEl) for the child at index k (0 = null).
Select(i, s, k) ==
  IF k = 0 THEN s
  ELSE [Hide(s) EXCEPT
          !.val = LabelFn(s.list[k].raw),
          !.list = [m \in 1..Len(s.list) |->
                      [s.list[m] EXCEPT !.hover = FALSE, !.active = (m = k)]],
          !.calls = Append(s.calls, Call("selectFn", i, "", s.list[k].raw, k))]

\* Variant of CurrentEl that prefers the active element to the hovered one.
CurrentElActiveFirst(l) ==
  IF FirstOf(ActiveIdx(l)) # 0 THEN FirstOf(ActiveIdx(l)) ELSE FirstOf(HoverIdx(l))

\* currentEl = focusedEl || activeEl, in #moveHover and #findSelectedEl: the
\* hovered element, else the active one (0 = null).
CurrentEl(l) ==
  IF FirstOf(HoverIdx(l)) # 0 THEN FirstOf(HoverIdx(l)) ELSE FirstOf(ActiveIdx(l))

\* Variant of MoveHover that stays on the edge item instead of wrapping.
MoveHoverNoWrap(s, dir) ==
  LET n == Len(s.list)
      cur == CurrentEl(s.list)
      edge == IF dir = 1 THEN 1 ELSE n
      nxt == IF cur = 0 THEN edge
             ELSE IF cur + dir \in 1..n THEN cur + dir ELSE cur
  IN [s EXCEPT !.sup = TRUE, !.list = [m \in 1..n |->
        [s.list[m] EXCEPT !.hover =
           IF m = nxt THEN TRUE ELSE IF m = cur THEN FALSE ELSE s.list[m].hover]]]

\* Variant of MoveHover with the two listProp arguments exchanged.
MoveHoverSwapped(s, dir) ==
  LET n == Len(s.list)
      cur == CurrentEl(s.list)
      edge == IF dir = 1 THEN n ELSE 1
      sib == IF cur = 0 THEN 0
             ELSE IF cur + dir \in 1..n THEN cur + dir ELSE 0
      nxt == IF sib # 0 THEN sib ELSE edge
  IN [s EXCEPT !.sup = TRUE, !.list = [m \in 1..n |->
        [s.list[m] EXCEPT !.hover =
           IF m = nxt THEN TRUE ELSE IF m = cur THEN FALSE ELSE s.list[m].hover]]]

\* #moveHover(event, currentProp, listProp); dir is +1 for
\* nextElementSibling/firstElementChild, -1 for the previous/last pair.
MoveHover(s, dir) ==
  LET n == Len(s.list)
      cur == CurrentEl(s.list)
      edge == IF dir = 1 THEN 1 ELSE n
      sib == IF cur = 0 THEN 0
             ELSE IF cur + dir \in 1..n THEN cur + dir ELSE 0
      nxt == IF sib # 0 THEN sib ELSE edge
  IN [s EXCEPT !.sup = TRUE,
               !.list = [m \in 1..n |->
        [s.list[m] EXCEPT !.hover =
           IF m = nxt THEN TRUE ELSE IF m = cur THEN FALSE ELSE s.list[m].hover]]]

\* Variant of FindSelectedEl that goes on to the default commit after enterFn.
FindSelectedElAlsoSelect(i, s, key) ==
  LET cur == CurrentEl(s.list)
      t == IF key = "Enter" /\ hasEnterFn[i]
             THEN [s EXCEPT !.calls = Append(s.calls,
                     Call("enterFn", i, "", IF cur = 0 THEN 0 ELSE s.list[cur].raw, cur))]
             ELSE s
  IN Select(i, [t EXCEPT !.sup = TRUE],
            IF cur # 0 THEN cur ELSE IF Len(s.list) > 0 THEN 1 ELSE 0)

\* Variant of FindSelectedEl that suppresses the event only on the #select
\* branch.
FindSelectedElLateSuppress(i, s, key) ==
  LET cur == CurrentEl(s.list)
  IN IF key = "Enter" /\ hasEnterFn[i]
       THEN [s EXCEPT !.calls = Append(s.calls,
               Call("enterFn", i, "", IF cur = 0 THEN 0 ELSE s.list[cur].raw, cur))]
       ELSE Select(i, [s EXCEPT !.sup = TRUE],
                   IF cur # 0 THEN cur ELSE IF Len(s.list) > 0 THEN 1 ELSE 0)

\* #findSelectedEl(e)
FindSelectedEl(i, s, key) ==
  LET cur == CurrentEl(s.list)
      e == [s EXCEPT !.sup = TRUE]
  IN IF key = "Enter" /\ hasEnterFn[i]
       THEN [e EXCEPT !.calls = Append(e.calls,
               Call("enterFn", i, "", IF cur = 0 THEN 0 ELSE s.list[cur].raw, cur))]
       ELSE Select(i, e, IF cur # 0 THEN cur ELSE IF Len(s.list) > 0 THEN 1 ELSE 0)

\* Variant of HandleKeyEvent without the return that ends the closed-list
\* branch: the key goes on to the open-list handling.
HandleKeyEventNoReturn(i, s, key) ==
  LET t == IF ~s.shown /\ key \in {"ArrowDown", "ArrowUp"} THEN Show(s) ELSE s
  IN IF key = "ArrowDown" THEN MoveHover(t, 1)
     ELSE IF key = "ArrowUp" THEN MoveHover(t, -1)
     ELSE IF key \in {"Enter", "Tab"} THEN FindSelectedEl(i, t, key)
     ELSE t

\* #handleKeyEvent(e)
HandleKeyEvent(i, s, key) ==
  IF ~s.shown
    THEN IF key \in {"ArrowDown", "ArrowUp"} THEN Show(s) ELSE s
  ELSE IF key = "ArrowDown" THEN MoveHover(s, 1)
  ELSE IF key = "ArrowUp" THEN MoveHover(s, -1)
  ELSE IF key \in {"Enter", "Tab"} THEN FindSelectedEl(i, s, key)
  ELSE s

\* Variant of OnMouseenter that does not strip the hover class first.
OnMouseenterNoClear(s, k) ==
  [s EXCEPT !.list = [m \in 1..Len(s.list) |->
                        [s.list[m] EXCEPT !.hover = (m = k) \/ s.list[m].hover]]]

\* onMouseenter(e) on the child at index k
OnMouseenter(s, k) ==
  [s EXCEPT !.list = [m \in 1..Len(s.list) |-> [s.list[m] EXCEPT !.hover = (m = k)]]]

\* --------------------------------------------------------------- timers
FreeTimerIds(T) == {id \in TimerIds : \A t \in T : t.id # id}
NewTimerId(T) == CHOOSE id \in FreeTimerIds(T) : \A m \in FreeTimerIds(T) : id <= m

\* clearTimeout(this.#timeoutId) when #timeoutId is set
ClearedTimers(T, tid) == IF tid # 0 THEN {t \in T : t.id # tid} ELSE T

\* Variant of DebounceRefresh that does not clear the previous timeout.
DebounceRefreshNoClear(T, tid) ==
  LET id == NewTimerId(T)
  IN [timers |-> T \cup {[id |-> id, left |-> Debounce]}, id |-> id]

\* #debounceRefresh(): the timeouts of the instance afterwards and the id
\* stored in #timeoutId
DebounceRefresh(T, tid) ==
  LET C == ClearedTimers(T, tid)
      id == NewTimerId(C)
  IN [timers |-> C \cup {[id |-> id, left |-> Debounce]}, id |-> id]

Min(a, b) == IF a < b THEN a ELSE b
Max(a, b) == IF a > b THEN a ELSE b
RemoveAt(q, k) == [m \in 1..(Len(q) - 1) |-> IF m < k THEN q[m] ELSE q[m + 1]]
Registered == {registry[f] : f \in Fields} \ {0}

\* ------------------------------------------------------------ user input
\* An input event on field f whose instance is i: the wrapper's 'input'
\* listener runs #debounceRefresh().
Input(f, v) ==
  /\ registry[f] # 0
  /\ v # value[f]
  /\ LET i == registry[f]
         d == DebounceRefresh(timers[i], timeoutId[i])
     IN /\ FreeTimerIds(timers[i]) # {}
        /\ value' = [value EXCEPT ![f] = v]
        /\ timers' = [timers EXCEPT ![i] = d.timers]
        /\ timeoutId' = [timeoutId EXCEPT ![i] = d.id]
        /\ sinceInput' = [sinceInput EXCEPT ![i] = 0]
        /\ burstCalls' = [burstCalls EXCEPT ![i] = 0]
        /\ typed' = [typed EXCEPT ![i] = v]
        /\ ev' = NoEv
  /\ calls' = <<>>
  /\ run' = NoRun
  /\ UNCHANGED <<widgetVars, lifeVars, inflight, list, shown, spinner>>
  /\ quiet' = [quiet EXCEPT ![registry[f]] = FALSE]

\* The user edits a field no Suggest is bound to: no listener runs.
TypeUnbound(f, v) ==
  /\ registry[f] = 0
  /\ v # value[f]
  /\ value' = [value EXCEPT ![f] = v]
  /\ ev' = NoEv
  /\ calls' = <<>>
  /\ run' = NoRun
  /\ UNCHANGED <<widgetVars, lifeVars, timeVars, inflight, list, shown, spinner>>
  /\ UNCHANGED quiet

\* One tick of time passes.
Tick ==
  /\ \/ \E i \in Insts : \E t \in timers[i] : t.left > 0
     \/ \E i \in Insts : status[i] # "none" /\ sinceInput[i] < Debounce
  /\ timers' = [i \in Insts |->
                  {[t EXCEPT !.left = Max(0, t.left - 1)] : t \in timers[i]}]
  /\ sinceInput' = [i \in Insts |->
                  IF status[i] # "none" THEN Min(Debounce, sinceInput[i] + 1)
                  ELSE sinceInput[i]]
  /\ UNCHANGED <<widgetVars, lifeVars, value, timeoutId, inflight, list, shown, spinner,
                 ev, calls, burstCalls, typed, run>>
  /\ UNCHANGED quiet

\* The timeout callback of #debounceRefresh() runs: it unsets #timeoutId and
\* calls refresh() (up to its await).
TimerFire(i) ==
  \E t \in timers[i] :
    /\ t.left = 0
    /\ LET s == Refresh(i, View(i))
       IN /\ Len(s.fly) <= MaxInflight
          /\ Store(i, s)
          /\ burstCalls' = [burstCalls EXCEPT ![i] =
                              Min(2, @ + (Len(s.fly) - Len(inflight[i])))]
    /\ timers' = [timers EXCEPT ![i] = @ \ {t}]
    /\ timeoutId' = [timeoutId EXCEPT ![i] = 0]
    /\ ev' = Ev("timer", i, FALSE, FALSE)
    /\ run' = NoRun
    /\ UNCHANGED <<widgetVars, lifeVars, sinceInput, typed>>
  /\ UNCHANGED quiet

\* searchFn's promise of the k-th suspended refresh() of instance i
\* resolves with the collection res.
ResolveOK(i, k, res) ==
  /\ k \in 1..Len(inflight[i])
  /\ LET e == inflight[i][k]
         s0 == View(i)
         s1 == Resolved([s0 EXCEPT !.fly = RemoveAt(s0.fly, k)], e.query, res)
         rendered == ~IsStale(s0.val, e.query)
         s2 == [s1 EXCEPT !.fly = [m \in 1..Len(s1.fly) |->
                  IF rendered /\ m < k THEN [s1.fly[m] EXCEPT !.late = TRUE]
                  ELSE s1.fly[m]]]
     IN /\ Store(i, s2)
        /\ ev' = Ev("resolve", i, ~rendered, e.late)
  /\ run' = NoRun
  /\ UNCHANGED <<widgetVars, lifeVars, timeVars>>
  /\ UNCHANGED quiet

\* searchFn's promise of the k-th suspended refresh() rejects.
ResolveErr(i, k, msg) ==
  /\ k \in 1..Len(inflight[i])
  /\ LET s0 == View(i)
     IN /\ Store(i, Rejected([s0 EXCEPT !.fly = RemoveAt(s0.fly, k)], msg))
        /\ ev' = Ev("reject", i, IsStale(s0.val, inflight[i][k].query), inflight[i][k].late)
  /\ run' = NoRun
  /\ UNCHANGED <<widgetVars, lifeVars, timeVars>>
  /\ UNCHANGED quiet

\* searchFn's promise of the k-th suspended refresh() resolves with the
\* non-empty collection res while the field still holds the query, and
\* labelFn (or markFn) throws msg inside updateList: the throw happens in the
\* try block of refresh(), before replaceChildren, and lands in its catch.
ResolveThrows(i, k, res, msg) ==
  /\ k \in 1..Len(inflight[i])
  /\ Len(res) > 0
  /\ ~IsStale(value[field[i]], inflight[i][k].query)
  /\ LET s0 == View(i)
     IN /\ Store(i, Rejected([s0 EXCEPT !.fly = RemoveAt(s0.fly, k)], msg))
        /\ ev' = Ev("throw", i, FALSE, inflight[i][k].late)
  /\ run' = NoRun
  /\ UNCHANGED <<widgetVars, lifeVars, timeVars>>
  /\ UNCHANGED quiet

\* A keydown in field f reaches the wrapper's listener: #handleKeyEvent.
Key(f, key) ==
  /\ registry[f] # 0
  /\ LET i == registry[f]
         arrow == key \in {"ArrowDown", "ArrowUp"} /\ shown[i]
     IN /\ Store(i, HandleKeyEvent(i, View(i), key))
        /\ ev' = [(IF key = "Tab" /\ shown[i] THEN Ev("Tab", i, FALSE, FALSE)
                                              ELSE NoEv)
                     EXCEPT !.i = i, !.key = key,
                            !.sup = HandleKeyEvent(i, View(i), key).sup]
        /\ run' = IF ~arrow THEN NoRun
                  ELSE IF run.i = i /\ run.dir = key /\ run.k < MaxRun
                    THEN [run EXCEPT !.k = @ + 1]
                  ELSE IF HoverIdx(list[i]) = {}
                    THEN [i |-> i, dir |-> key, k |-> 1,
                          act |-> FirstOf(ActiveIdx(list[i]))]
                  ELSE NoRun
  /\ UNCHANGED <<widgetVars, lifeVars, timeVars>>
  /\ quiet' = [quiet EXCEPT ![registry[f]] = CommitIn(calls')]

\* A pointer click on child k of the open list (k = 0: on the list element
\* itself): the list's click listener stops propagation and calls #select.
ClickItem(f, k) ==
  /\ registry[f] # 0
  /\ LET i == registry[f]
     IN /\ shown[i]
        /\ k \in 0..Len(list[i])
        /\ Store(i, Select(i, View(i), k))
        /\ ev' = NoEv
  /\ run' = NoRun
  /\ UNCHANGED <<widgetVars, lifeVars, timeVars>>
  /\ quiet' = [quiet EXCEPT ![registry[f]] = CommitIn(calls')]

\* The pointer enters item k of the open list.
MouseEnter(f, k) ==
  /\ registry[f] # 0
  /\ LET i == registry[f]
     IN /\ shown[i]
        /\ k \in 1..Len(list[i])
        /\ list[i][k].kind = "item"
        /\ Store(i, OnMouseenter(View(i), k))
        /\ ev' = NoEv
  /\ run' = NoRun
  /\ UNCHANGED <<widgetVars, lifeVars, timeVars>>
  /\ quiet' = [quiet EXCEPT ![registry[f]] = FALSE]

\* Variant of DocumentOnClick that also empties the lists it hides.
DocumentOnClickClear(L, S, tf) ==
  [i \in Insts |->
     IF docListeners > 0 /\ i \in Registered /\ field[i] # tf
       THEN [list |-> <<>>, shown |-> FALSE]
       ELSE [list |-> L[i], shown |-> S[i]]]

\* Suggest.#documentOnClick(e) for a click whose target lies in field tf
\* (0 = in no field and no list), given the lists L and flags S.
DocumentOnClick(L, S, tf) ==
  [i \in Insts |->
     IF docListeners > 0 /\ i \in Registered /\ field[i] # tf
       THEN [list |-> [m \in 1..Len(L[i]) |-> [L[i][m] EXCEPT !.hover = FALSE]],
             shown |-> FALSE]
       ELSE [list |-> L[i], shown |-> S[i]]]

\* A click on the input f: the wrapper's click listener shows or hides the
\* list, then the click reaches the document.
ClickField(f) ==
  /\ registry[f] # 0
  /\ LET i == registry[f]
         s == IF value[f] # "" THEN Show(View(i)) ELSE Hide(View(i))
         d == DocumentOnClick(list, [shown EXCEPT ![i] = s.shown], f)
     IN /\ list' = [j \in Insts |-> d[j].list]
        /\ shown' = [j \in Insts |-> d[j].shown]
        /\ ev' = NoEv
  /\ calls' = <<>>
  /\ run' = NoRun
  /\ UNCHANGED <<widgetVars, lifeVars, timeVars, value, inflight, spinner>>
  /\ quiet' = NoCommit

\* A click somewhere outside every field and list.
ClickOutside ==
  /\ docListeners > 0
  /\ LET d == DocumentOnClick(list, shown, 0)
     IN /\ list' = [j \in Insts |-> d[j].list]
        /\ shown' = [j \in Insts |-> d[j].shown]
  /\ ev' = NoEv
  /\ calls' = <<>>
  /\ run' = NoRun
  /\ UNCHANGED <<widgetVars, lifeVars, timeVars, value, inflight, spinner>>
  /\ quiet' = NoCommit

\* ------------------------------------------------------------- lifecycle
\* The registry, listener count, status and DOM as one record.
Life == [registry |-> registry, docListeners |-> docListeners,
         status |-> status, domDamage |-> domDamage]

StoreLife(L) ==
  /\ registry' = L.registry
  /\ docListeners' = L.docListeners
  /\ status' = L.status
  /\ domDamage' = L.domDamage

\* destroy() of instance i once this.#spinner.destroy() has returned: the
\* parent element of the field is removed (the wrapper of whichever instance
\* is bound to the field, else an ancestor of the field), the field's
\* registry entry is deleted and the document listener is removed when the
\* registry is left empty.
DestroyBody(L, i) ==
  LET f == field[i]
      reg == [L.registry EXCEPT ![f] = 0]
  IN [registry |-> reg,
      docListeners |-> IF \A g \in Fields : reg[g] = 0 THEN 0 ELSE L.docListeners,
      status |-> [L.status EXCEPT ![i] = "destroyed"],
      domDamage |-> IF L.registry[f] = 0 THEN [L.domDamage EXCEPT ![f] = TRUE]
                    ELSE L.domDamage]

\* Variant of Register that installs the document listener every time.
RegisterAlways(L, f, i) ==
  [L EXCEPT !.docListeners = L.docListeners + 1,
            !.registry = [L.registry EXCEPT ![f] = i],
            !.status = [L.status EXCEPT ![i] = "live"]]

\* The end of the constructor: install the document listener when the
\* registry is empty, then register the instance.
Register(L, f, i) ==
  [L EXCEPT !.docListeners = IF \A g \in Fields : L.registry[g] = 0
                               THEN L.docListeners + 1 ELSE L.docListeners,
            !.registry = [L.registry EXCEPT ![f] = i],
            !.status = [L.status EXCEPT ![i] = "live"]]

\* Variant of Construct that lacks the test of options.searchFn.
ConstructNoFnTest(f, okFn, ml, ef) ==
  /\ nextInst < MaxInst
  /\ LET i == nextInst + 1
         L0 == Life
         L1 == IF f # 0 /\ L0.registry[f] # 0
                 THEN DestroyBody(L0, L0.registry[f]) ELSE L0
         L2 == IF f # 0 THEN Register(L1, f, i)
               ELSE [L1 EXCEPT !.status = [L1.status EXCEPT ![i] = "aborted"]]
     IN /\ StoreLife(L2)
        /\ nextInst' = i
        /\ field' = [field EXCEPT ![i] = f]
        /\ minLength' = [minLength EXCEPT ![i] = ml]
        /\ hasEnterFn' = [hasEnterFn EXCEPT ![i] = ef]
        /\ ev' = NoEv
  /\ calls' = <<>>
  /\ run' = NoRun
  /\ UNCHANGED <<widgetVars, timeVars, value, inflight, list, shown, spinner>>
  /\ quiet' = NoCommit

\* new Suggest(el, options): f = 0 when el selects nothing; okFn tells
\* whether options.searchFn is a function.
Construct(f, okFn, ml, ef) ==
  /\ nextInst < MaxInst
  /\ LET i == nextInst + 1
         L0 == Life
         L1 == IF f # 0 /\ L0.registry[f] # 0
                 THEN DestroyBody(L0, L0.registry[f]) ELSE L0
         L2 == IF f # 0 /\ okFn THEN Register(L1, f, i)
               ELSE [L1 EXCEPT !.status = [L1.status EXCEPT ![i] = "aborted"]]
     IN /\ StoreLife(L2)
        /\ nextInst' = i
        /\ field' = [field EXCEPT ![i] = f]
        /\ minLength' = [minLength EXCEPT ![i] = ml]
        /\ hasEnterFn' = [hasEnterFn EXCEPT ![i] = ef]
        /\ ev' = NoEv
  /\ calls' = <<>>
  /\ run' = NoRun
  /\ UNCHANGED <<widgetVars, timeVars, value, inflight, list, shown, spinner>>
  /\ quiet' = NoCommit

\* destroy() called on instance i.  On an instance whose construction
\* aborted this.#spinner is undefined and the call throws at once; on an
\* instance already destroyed the second Spinner.destroy() either throws or
\* returns (done tells which).
Destroy(i, done) ==
  /\ i <= nextInst
  /\ status[i] = "aborted" => ~done
  /\ status[i] = "live" => done
  /\ IF done THEN StoreLife(DestroyBody(Life, i))
     ELSE UNCHANGED <<registry, docListeners, status, domDamage>>
  /\ ev' = NoEv
  /\ calls' = <<>>
  /\ run' = NoRun
  /\ UNCHANGED <<widgetVars, nextInst, field, minLength, hasEnterFn, timeVars,
                 value, inflight, list, shown, spinner>>
  /\ quiet' = NoCommit

\* ----------------------------------------------------------- search.ajax
\* Text is a sequence of characters where the code looks inside it.
LoginSuffixes == {<<"/", "l">>, <<"l">>}
Urls == {<<"/", "a">>, <<"/", "l">>, <<"a", "l">>, <<"/", "l", "/">>, <<"l">>}

\* What result.json() can meet in the body: a JSON array, another JSON
\* value, or text that is not JSON.
Payloads ==
  {[kind |-> "array", items |-> r] : r \in SearchResults}
    \cup {[kind |-> k, items |-> <<>>] : k \in {"object", "null", "invalid"}}

Responses ==
  [redirected : BOOLEAN, url : Urls, ok : BOOLEAN, body : Payloads]

\* String.prototype.endsWith
EndsWith(u, sfx) ==
  /\ Len(sfx) <= Len(u)
  /\ SubSeq(u, Len(u) - Len(sfx) + 1, Len(u)) = sfx

Rejects(msg) == [kind |-> "reject", msg |-> msg, items |-> <<>>]
Resolves(items) == [kind |-> "resolve", msg |-> "", items |-> items]
NoOutcome == [kind |-> "none", msg |-> "", items |-> <<>>]

\* Variant of AjaxOutcome with the first two tests in the other order.
AjaxOutcomeGenericFirst(result, loginUrlEndsWith) ==
  IF result.redirected \/ ~result.ok
    THEN Rejects("There was a problem with the server.")
  ELSE IF result.redirected /\ EndsWith(result.url, loginUrlEndsWith)
    THEN Rejects("You have been logged out.")
  ELSE IF result.body.kind = "invalid"
    THEN Rejects("SyntaxError")
  ELSE IF result.body.kind # "array"
    THEN Rejects("There was a problem with the server.")
  ELSE Resolves(result.body.items)

\* The function search.ajax returns, from the response of fetch on: the two
\* tests of the response, result.json() (which rejects with a SyntaxError on
\* a body that is not JSON), the instanceof Array test.
AjaxOutcome(result, loginUrlEndsWith) ==
  IF result.redirected /\ EndsWith(result.url, loginUrlEndsWith)
    THEN Rejects("You have been logged out.")
  ELSE IF result.redirected \/ ~result.ok
    THEN Rejects("There was a problem with the server.")
  ELSE IF result.body.kind = "invalid"
    THEN Rejects("SyntaxError")
  ELSE IF result.body.kind # "array"
    THEN Rejects("There was a problem with the server.")
  ELSE Resolves(result.body.items)

NoResponse == [redirected |-> FALSE, url |-> <<>>, ok |-> FALSE,
               body |-> [kind |-> "none", items |-> <<>>]]

\* No call in progress, after n calls; got tells whether fetch gave a response.
AjaxIdle(n) == [pc |-> "idle", n |-> n, suffix |-> <<>>, got |-> FALSE,
                result |-> NoResponse, out |-> NoOutcome]

\* search.ajax(buildUrlFn, loginUrlEndsWith)(query) up to the await of fetch.
AjaxCall(loginUrlEndsWith) ==
  /\ ajax.pc = "idle"
  /\ ajax.n < MaxAjaxCalls
  /\ ajax' = [AjaxIdle(ajax.n + 1) EXCEPT !.pc = "fetching",
                                         !.suffix = loginUrlEndsWith]
  /\ UNCHANGED notAjax

\* fetch resolves with the response result and the function runs to its end.
AjaxRespond(result) ==
  /\ ajax.pc = "fetching"
  /\ ajax' = [ajax EXCEPT !.pc = "done", !.got = TRUE, !.result = result,
                          !.out = AjaxOutcome(result, ajax.suffix)]
  /\ UNCHANGED notAjax

\* fetch rejects (no response): the rejection is the function's.
AjaxFetchFails ==
  /\ ajax.pc = "fetching"
  /\ ajax' = [ajax EXCEPT !.pc = "done", !.out = Rejects("TypeError")]
  /\ UNCHANGED notAjax

\* The caller is done with the outcome.
AjaxReturn ==
  /\ ajax.pc = "done"
  /\ ajax' = AjaxIdle(ajax.n)
  /\ UNCHANGED notAjax

\* ------------------------------------------------------- mark.startsWith
Chars == {"a", "A", "b"}
Texts(n) == UNION {[1..k -> Chars] : k \in 0..n}

\* String.prototype.toLowerCase
ToLowerCase(t) == [k \in 1..Len(t) |-> IF t[k] = "A" THEN "a" ELSE t[k]]

\* String.prototype.indexOf: the first position (from 0) of n in h, else -1.
IndexOf(h, n) ==
  LET P == {p \in 0..(Len(h) - Len(n)) : SubSeq(h, p + 1, p + Len(n)) = n}
  IN IF P = {} THEN -1 ELSE CHOOSE p \in P : \A r \in P : p <= r

\* label.slice(0, index) and label.slice(index), for index >= 0.
SliceTo(t, index) == SubSeq(t, 1, Min(index, Len(t)))
SliceFrom(t, index) == SubSeq(t, Min(index, Len(t)) + 1, Len(t))

\* mark.startsWith(query, label); the two tags are single elements.
StartsWith(query, label) ==
  LET index == IndexOf(ToLowerCase(label), ToLowerCase(query)) + Len(query)
  IN <<"<mark>">> \o SliceTo(label, index) \o <<"</mark>">> \o SliceFrom(label, index)

MarkIdle == [pc |-> "idle", query |-> <<>>, label |-> <<>>, out |-> <<>>]

\* A call of mark.startsWith (as markFn or directly).
MarkCall(query, label) ==
  /\ mk.pc = "idle"
  /\ mk' = [pc |-> "done", query |-> query, label |-> label,
            out |-> StartsWith(query, label)]
  /\ UNCHANGED notMark

\* The caller is done with the markup.
MarkReturn ==
  /\ mk.pc = "done"
  /\ mk' = MarkIdle
  /\ UNCHANGED notMark

\* ----------------------------------------------------------- RadioButton
Btns == 1..NumBtns

\* The value attribute of each button of the group.
BtnValue(b) == IF b = 1 THEN "true" ELSE IF b = 2 THEN "false" ELSE ToString(b)

\* The group as the page's markup gives it: named tells whether it has a
\* data-name, active is the set of buttons that carry the active class; no
\* RadioButton is bound and there is no hidden input.
RadioMarkup(named, active) ==
  [named |-> named, bound |-> FALSE, active |-> active, hidden |-> "",
   last |-> 0]

\* destroy(): the hidden input and the listeners are removed and the group
\* leaves the registry; the classes of the buttons stay.
RadioDestroyed(r) == RadioMarkup(r.named, r.active)

\* new RadioButton(el): the hidden input is created (value '') and takes
\* the value of each button that carries the active class, in document
\* order, so that the last one stays.
RadioConstructed(r) ==
  LET lastActive == CHOOSE b \in r.active : \A c \in r.active : c <= b
  IN [r EXCEPT !.bound = TRUE, !.last = 0,
               !.hidden = IF r.active = {} THEN "" ELSE BtnValue(lastActive)]

\* Variant of RadioSelect that leaves the hidden input alone on a deselect.
RadioSelectKeepValue(r, b) ==
  IF b \in r.active
    THEN [r EXCEPT !.active = r.active \ {b}, !.last = b]
    ELSE [r EXCEPT !.active = {b}, !.hidden = BtnValue(b), !.last = b]

\* Variant of RadioSelect that does not strip the class from the others.
RadioSelectAdd(r, b) ==
  IF b \in r.active
    THEN [r EXCEPT !.active = r.active \ {b}, !.hidden = "", !.last = b]
    ELSE [r EXCEPT !.active = r.active \cup {b}, !.hidden = BtnValue(b), !.last = b]

\* #select(btnEl) for button b; last records the button.
RadioSelect(r, b) ==
  IF b \in r.active
    THEN [r EXCEPT !.active = r.active \ {b}, !.hidden = "", !.last = b]
    ELSE [r EXCEPT !.active = {b}, !.hidden = BtnValue(b), !.last = b]

\* new RadioButton(groupEl): a RadioButton already bound to the group is
\* destroyed first; a group without data-name makes the constructor throw.
RadioConstruct ==
  /\ LET r == IF radio.bound THEN RadioDestroyed(radio) ELSE radio
     IN radio' = IF r.named THEN RadioConstructed(r) ELSE r
  /\ UNCHANGED notRadio

\* A click on button b of the bound group: its click listener runs #select.
RadioClick(b) ==
  /\ radio.bound
  /\ radio' = RadioSelect(radio, b)
  /\ UNCHANGED notRadio

\* destroy() on the bound RadioButton.
RadioDestroy ==
  /\ radio.bound
  /\ radio' = RadioDestroyed(radio)
  /\ UNCHANGED notRadio

\* ------------------------------------------------------------- CopyText
CopyChars == {"a", " ", "\n"}
CopyStrings(n) == UNION {[1..k -> CopyChars] : k \in 0..n}

\* What the regular expression \s and String.prototype.trim take for
\* whitespace.
IsSpace(c) == c \in {" ", "\n"}

\* JavaScript values that a piece of text can be: undefined, null, a string.
Undefined == [t |-> "undefined", s |-> <<>>]
Null == [t |-> "null", s |-> <<>>]
Str(s) == [t |-> "string", s |-> s]
Truthy(v) == v.t = "string" /\ v.s # <<>>

\* The elements a copyTarget selector can match: one with a value (a form
\* control), one that has the copyElProperty property, one that has neither.
FormEl(v) == [kind |-> "value", text |-> v]
PropEl(t) == [kind |-> "prop", text |-> t]
BareEl == [kind |-> "bare", text |-> <<>>]
TargetEls ==
  {FormEl(v) : v \in CopyStrings(MaxValueLen)}
    \cup {PropEl(t) : t \in CopyStrings(MaxTextLen)}
    \cup {BareEl}
Matches == UNION {[1..k -> TargetEls] : k \in 0..MaxTargets}

RECURSIVE DropSpaces(_)
DropSpaces(s) ==
  IF s # <<>> /\ IsSpace(Head(s)) THEN DropSpaces(Tail(s)) ELSE s

\* text.replace(/\s/g, ' '): every whitespace character on its own.
RECURSIVE ReplaceEachSpace(_)
ReplaceEachSpace(s) ==
  IF s = <<>> THEN <<>>
  ELSE <<IF IsSpace(Head(s)) THEN " " ELSE Head(s)>>
         \o ReplaceEachSpace(Tail(s))

\* text.replace(/\s+/g, ' ')
RECURSIVE ReplaceSpaces(_)
ReplaceSpaces(s) ==
  IF s = <<>> THEN <<>>
  ELSE IF IsSpace(Head(s))
    THEN <<" ">> \o ReplaceSpaces(DropSpaces(Tail(s)))
  ELSE <<Head(s)>> \o ReplaceSpaces(Tail(s))

Reverse(s) == [k \in 1..Len(s) |-> s[Len(s) + 1 - k]]

\* String.prototype.trim
Trim(s) == Reverse(DropSpaces(Reverse(DropSpaces(s))))

\* Array.prototype.join(' ')
RECURSIVE Join(_)
Join(a) ==
  IF a = <<>> THEN <<>>
  ELSE IF Len(a) = 1 THEN a[1]
  ELSE a[1] \o <<" ">> \o Join(Tail(a))

\* The callback of targets.map in #extractText: the value of an element
\* that has one, else the property (the empty string without it) with
\* whitespace replaced and trimmed.
ElText(el) ==
  IF el.kind = "value" THEN el.text ELSE Trim(ReplaceSpaces(el.text))

\* CopyText.#extractText(selector, elProperty), targets being the elements
\* the selector matches.
ExtractText(targets) ==
  IF Len(targets) = 0 THEN Null
  ELSE LET extractedText ==
             Join([k \in 1..Len(targets) |-> ElText(targets[k])])
       IN IF extractedText = <<>> THEN Null ELSE Str(extractedText)

\* textToCopy of #doCopy.
TextToCopy(c) ==
  IF c.copyTarget THEN ExtractText(c.targets) ELSE c.copyText

\* A CopyText on an element: the settings copyText and copyTarget (whether
\* a selector is set) and the elements the selector matches; the texts
\* handed to navigator.clipboard.writeText and not written yet, the
\* clipboard, whether the toast is showing, and what happened last.
CopyBound(copyText, copyTarget, targets) ==
  [copyText |-> copyText, copyTarget |-> copyTarget, targets |-> targets,
   pending |-> <<>>, clipboard |-> Undefined, toast |-> FALSE,
   last |-> "none"]

\* The trigger event fires: #doCopy up to its await.
CopyTrigger ==
  /\ Len(copy.pending) < MaxWrites
  /\ LET textToCopy == TextToCopy(copy)
     IN copy' = IF Truthy(textToCopy)
                  THEN [copy EXCEPT !.pending = Append(@, textToCopy.s),
                                    !.last = "asked"]
                  ELSE [copy EXCEPT !.last = "skipped"]
  /\ UNCHANGED notCopy

\* writeText resolves: the text is on the clipboard and #showToast runs.
CopyWritten ==
  /\ copy.pending # <<>>
  /\ copy' = [copy EXCEPT !.pending = Tail(@),
                          !.clipboard = Str(Head(copy.pending)),
                          !.toast = TRUE, !.last = "written"]
  /\ UNCHANGED notCopy

\* writeText rejects: #doCopy ends with the rejection, no toast.
CopyWriteFails ==
  /\ copy.pending # <<>>
  /\ copy' = [copy EXCEPT !.pending = Tail(@), !.last = "failed"]
  /\ UNCHANGED notCopy

\* The toast's delay runs out.
CopyToastHidden ==
  /\ copy.toast
  /\ copy' = [copy EXCEPT !.toast = FALSE]
  /\ UNCHANGED notCopy

\* --------------------------------------------------------- Confirmation
ElKinds == {"anchor", "button", "form", "submit", "other"}
IsAnchorOrBtn(kind) == kind \in {"anchor", "button"}
IsForm(kind) == kind = "form"
IsSubmitBtnOrInput(kind) == kind = "submit"

\* What a consumer callback can do: return with the dialog left open, hide
\* the dialog and return, or throw.
CallbackOutcomes == {"returns", "hides", "throws"}

\* A Confirmation on an element of the given kind.  modal is the dialog:
\* "none", "shown", or "hiding" (hide() called, not removed yet); fired
\* counts the guarded actions triggered since the dialog was created;
\* reprompted tells that an event dispatched by #yesClickHandler was itself
\* stopped by #eventHandler; last is what happened last.
ConfBound(kind, yesCallback, noCallback) ==
  [kind |-> kind, yesCallback |-> yesCallback, noCallback |-> noCallback,
   inProgress |-> FALSE, modal |-> "none", fired |-> 0,
   reprompted |-> FALSE, last |-> "none"]

\* modal.hide()
ModalHide(m) == IF m = "shown" THEN "hiding" ELSE m

\* Variant of EventHandler that lacks the test of #inProgress.
EventHandlerNoFlag(c) ==
  [c EXCEPT !.modal = "shown", !.fired = 0, !.last = "asked"]

\* #eventHandler(e): the event is let through untouched while #inProgress
\* is set, else its default is prevented and #showConfirmation runs.
EventHandler(c) ==
  IF c.inProgress THEN [c EXCEPT !.last = "passed"]
  ELSE [c EXCEPT !.modal = "shown", !.fired = 0, !.last = "asked"]

\* this.#el.click() / this.#el.requestSubmit() inside #yesClickHandler: the
\* event reaches #eventHandler; let through, the element's action proceeds.
Redispatched(c) ==
  IF EventHandler(c).last = "passed" THEN [c EXCEPT !.fired = @ + 1]
  ELSE [c EXCEPT !.reprompted = TRUE]

\* #yesClickHandler(modal): #inProgress is set, the callback or the
\* element's own action runs (a submit button submits its form, on which
\* this Confirmation has no listener), #inProgress is reset (not after a
\* throw).
YesClick(c, outcome) ==
  IF c.yesCallback
    THEN [c EXCEPT !.fired = @ + 1, !.inProgress = (outcome = "throws"),
                   !.modal = IF outcome = "hides" THEN ModalHide(@) ELSE @,
                   !.last = "yes"]
  ELSE LET c1 == [c EXCEPT !.inProgress = TRUE]
           c2 == IF IsAnchorOrBtn(c.kind) \/ IsForm(c.kind)
                   THEN Redispatched(c1) ELSE c1
           c3 == IF IsSubmitBtnOrInput(c.kind)
                   THEN [c2 EXCEPT !.fired = @ + 1] ELSE c2
       IN [c3 EXCEPT !.inProgress = FALSE, !.modal = ModalHide(@),
                     !.last = "yes"]

\* The element's click or submit event, from the user: #eventHandler lets
\* it through while #inProgress is set, else #showConfirmation.
ConfTrigger ==
  /\ conf.modal = "none"
  /\ conf' = EventHandler(conf)
  /\ UNCHANGED notConf

\* A click on the dialog's 'yes' button.
ConfYes(outcome) ==
  /\ conf.modal # "none"
  /\ conf.fired < MaxFired
  /\ conf.yesCallback \/ outcome = "hides"
  /\ conf' = YesClick(conf, outcome)
  /\ UNCHANGED notConf

\* A click on the dialog's 'no' button: #noClickHandler.
ConfNo(outcome) ==
  /\ conf.modal # "none"
  /\ conf.noCallback \/ outcome = "hides"
  /\ conf' = [conf EXCEPT
                !.modal = IF outcome = "hides" THEN ModalHide(@) ELSE @,
                !.last = "no"]
  /\ UNCHANGED notConf

\* The dialog's close button, the backdrop or Escape.
ConfDismiss ==
  /\ conf.modal = "shown"
  /\ conf' = [conf EXCEPT !.modal = "hiding", !.last = "dismissed"]
  /\ UNCHANGED notConf

\* hidden.bs.modal: the dialog is removed from the document.
ConfHidden ==
  /\ conf.modal = "hiding"
  /\ conf' = [conf EXCEPT !.modal = "none", !.last = "hidden"]
  /\ UNCHANGED notConf

\* ------------------------------------------------------------- dirtyCheck
\* Utils.js comes in two versions: one keeps its change and submit listeners
\* in the constants dirtyChangeListener and dirtySubmitListener, the other
\* passes a fresh arrow function to every addEventListener call.  A listener
\* list is modelled by the number of entries the version's listeners have in
\* it; changes counts the change events dispatched since dirtyCheck() was
\* first called and since the most recent submit event.
PageLoaded(named) ==
  [named |-> named, changeListeners |-> 0, submitListeners |-> 0,
   beforeunload |-> 0, changes |-> 0, prompts |-> 0, last |-> "load"]

\* removeEventListener with a function kept by reference.
RemoveEventListener(n) == IF n > 0 THEN n - 1 ELSE 0

\* addEventListener with a function kept by reference: a listener already in
\* the list is not added again.
AddEventListener(n) == IF n = 0 THEN 1 ELSE n

\* addEventListener with a function created for the call.
AddFreshListener(n) == n + 1

\* Variant of DirtySubmitListener that leaves the guard alone.
DirtySubmitListenerKeeps(g) == g

\* dirtyChangeListener, and the change listener of the second version, on
\* the number g of preventNav entries in window's beforeunload list.
DirtyChangeListener(g) == AddEventListener(RemoveEventListener(g))

\* dirtySubmitListener, and the submit listener of the second version.
DirtySubmitListener(g) == RemoveEventListener(g)

\* A change event at the document: each registered listener runs in turn.
RECURSIVE DispatchChange(_, _)
DispatchChange(k, g) ==
  IF k = 0 THEN g ELSE DispatchChange(k - 1, DirtyChangeListener(g))

\* A submit event at the document.
RECURSIVE DispatchSubmit(_, _)
DispatchSubmit(k, g) ==
  IF k = 0 THEN g ELSE DispatchSubmit(k - 1, DirtySubmitListener(g))

\* dirtyCheck(), of either version.
DirtyCheckCall(d) ==
  IF d.named
    THEN [d EXCEPT
            !.changeListeners = AddEventListener(RemoveEventListener(@)),
            !.submitListeners = AddEventListener(RemoveEventListener(@)),
            !.last = "dirtyCheck"]
    ELSE [d EXCEPT
            !.changeListeners = AddFreshListener(@),
            !.submitListeners = AddFreshListener(@),
            !.last = "dirtyCheck"]

DirtyCheck ==
  /\ dirty.changeListeners < MaxDirtyChecks
  /\ dirty' = DirtyCheckCall(dirty)
  /\ UNCHANGED notDirty

\* A change event bubbles to the document.
DirtyChange ==
  /\ dirty.changes < MaxChanges
  /\ dirty' = [dirty EXCEPT
       !.beforeunload = DispatchChange(dirty.changeListeners, @),
       !.changes = IF dirty.changeListeners = 0 THEN @ ELSE @ + 1,
       !.last = "change"]
  /\ UNCHANGED notDirty

\* A submit event bubbles to the document (the page stays: the submission
\* is handled in place).
DirtySubmit ==
  /\ dirty' = [dirty EXCEPT
       !.beforeunload = DispatchSubmit(dirty.submitListeners, @),
       !.changes = 0,
       !.last = "submit"]
  /\ UNCHANGED notDirty

\* The user navigates away: preventNav, when registered, has the browser
\* ask, and the user stays; otherwise the page is left and loaded afresh.
BeforeUnload ==
  /\ IF dirty.beforeunload > 0
       THEN /\ dirty.prompts < MaxPrompts
            /\ dirty' = [dirty EXCEPT !.prompts = @ + 1, !.last = "asked"]
       ELSE /\ dirty.last # "left"
            /\ dirty' = [PageLoaded(dirty.named) EXCEPT !.last = "left"]
  /\ UNCHANGED notDirty

\* ------------------------------------------------------------- list items
\* A list element: data-index (NoIndex when the attribute is absent or
\* empty), its element children in document order, whether its items hold a
\* delete input, and the indices addItem has substituted so far.  A child
\* carries the index it was built with (NoIndex when server-rendered) and its
\* stage: "adding" and "removing"/"fading" are the transitioning wrappers,
\* "hidden" an item kept for its delete input.
NoIndex == -1

ItemStages == {"adding", "item", "removing", "fading", "hidden"}

ListMarkup(n, index, deleteInput) ==
  [index |-> index,
   children |-> [k \in 1..n |-> [index |-> NoIndex, stage |-> "item"]],
   deleteInput |-> deleteInput,
   given |-> <<>>,
   last |-> "load"]

\* Variant of AddIndexIfNeeded that counts the children on every call.
AddIndexAlways(l) == [l EXCEPT !.index = Len(l.children)]

\* addIndexIfNeeded(listEl)
AddIndexIfNeeded(l) ==
  IF l.index # NoIndex THEN l ELSE [l EXCEPT !.index = Len(l.children)]

\* addItem(addBtn), up to the start of the transition.
AddItem(l) ==
  LET l1 == AddIndexIfNeeded(l)
      index == l1.index
  IN [l1 EXCEPT !.index = index + 1,
                !.children = Append(@, [index |-> index, stage |-> "adding"]),
                !.given = Append(@, index),
                !.last = "add"]

\* removeItem(removeBtn) for the item in child k, up to the 5 ms timeout.
\* The item of a child still being added sits in its wrapper, which is then
\* the listEl of removeItem: the list's own data-index is not looked at.
RemoveItem(l, k) ==
  LET l1 == IF l.children[k].stage = "item" THEN AddIndexIfNeeded(l) ELSE l
  IN [l1 EXCEPT !.children[k].stage = "removing", !.last = "remove"]

\* The callback given to afterTransition by removeItem.
Removed(l, k) ==
  IF l.deleteInput
    THEN [l EXCEPT !.children[k].stage = "hidden", !.last = "removed"]
    ELSE [l EXCEPT
            !.children = [m \in 1..(Len(l.children) - 1) |->
                            IF m < k THEN l.children[m] ELSE l.children[m + 1]],
            !.last = "removed"]

ItemAdd ==
  /\ Len(li.given) < MaxAdds
  /\ li' = AddItem(li)
  /\ UNCHANGED notItems

\* The callback given to afterTransition by addItem: the wrapper is replaced
\* by the item.
ItemAdded(k) ==
  /\ k \in 1..Len(li.children)
  /\ li.children[k].stage = "adding"
  /\ li' = [li EXCEPT !.children[k].stage = "item", !.last = "added"]
  /\ UNCHANGED notItems

ItemRemove(k) ==
  /\ k \in 1..Len(li.children)
  /\ li.children[k].stage \in {"item", "adding"}
  /\ li' = RemoveItem(li, k)
  /\ UNCHANGED notItems

\* The 5 ms timeout of removeItem: the wrapper starts to shrink.
ItemRemoveTimeout(k) ==
  /\ k \in 1..Len(li.children)
  /\ li.children[k].stage = "removing"
  /\ li' = [li EXCEPT !.children[k].stage = "fading", !.last = "fading"]
  /\ UNCHANGED notItems

ItemRemoved(k) ==
  /\ k \in 1..Len(li.children)
  /\ li.children[k].stage = "fading"
  /\ li' = Removed(li, k)
  /\ UNCHANGED notItems

\* --------------------------------------------------------- specifications
\* Nothing but Suggest in use: no call of the search factory or of the
\* highlighter in progress, the button group unbound, a CopyText with
\* nothing to copy, a Confirmation with no dialog.
IdleAjax == ajax = AjaxIdle(0)
IdleMark == mk = MarkIdle
IdleRadio == radio = RadioMarkup(TRUE, {})
IdleCopy == copy = CopyBound(Undefined, FALSE, <<>>)
IdleConf == conf = ConfBound("other", FALSE, FALSE)
IdleDirty == dirty = PageLoaded(TRUE)
IdleItems == li = ListMarkup(0, NoIndex, FALSE)
IdleWidgets ==
  /\ IdleAjax /\ IdleMark /\ IdleRadio /\ IdleCopy /\ IdleConf
  /\ IdleDirty /\ IdleItems

BlankSuggest ==
  /\ value = [f \in Fields |-> ""]
  /\ timers = [i \in Insts |-> {}]
  /\ timeoutId = [i \in Insts |-> 0]
  /\ inflight = [i \in Insts |-> <<>>]
  /\ list = [i \in Insts |-> <<>>]
  /\ shown = [i \in Insts |-> FALSE]
  /\ spinner = [i \in Insts |-> FALSE]
  /\ domDamage = [f \in Fields |-> FALSE]
  /\ ev = NoEv
  /\ calls = <<>>
  /\ sinceInput = [i \in Insts |-> Debounce]
  /\ burstCalls = [i \in Insts |-> 0]
  /\ typed = [i \in Insts |-> ""]
  /\ run = NoRun
  /\ quiet = NoCommit

Blank == BlankSuggest /\ IdleWidgets

\* One Suggest constructed on field 1 with the given settings.
OneSuggest(ml, ef) ==
  /\ Blank
  /\ registry = [f \in Fields |-> IF f = 1 THEN 1 ELSE 0]
  /\ docListeners = 1
  /\ nextInst = 1
  /\ status = [i \in Insts |-> IF i = 1 THEN "live" ELSE "none"]
  /\ field = [i \in Insts |-> IF i = 1 THEN 1 ELSE 0]
  /\ minLength = [i \in Insts |-> IF i = 1 THEN ml ELSE 1]
  /\ hasEnterFn = [i \in Insts |-> IF i = 1 THEN ef ELSE FALSE]

\* Searching: one Suggest, any minLength; typing, time, overlapping
\* searches settling in any order, pointer commits.
Init == \E ml \in 1..MaxMinLength : OneSuggest(ml, FALSE)

Next ==
  \/ \E f \in Fields, v \in Values : Input(f, v)
  \/ Tick
  \/ \E i \in Insts : TimerFire(i)
  \/ \E i \in Insts, k \in 1..MaxInflight, res \in SearchHits : ResolveOK(i, k, res)
  \/ \E i \in Insts, k \in 1..MaxInflight, msg \in Errors : ResolveErr(i, k, msg)
  \/ \E f \in Fields, k \in 0..MaxHits : ClickItem(f, k)
  \/ \E f \in Fields, k \in 1..MaxHits : MouseEnter(f, k)
  \/ \E f \in Fields : ClickField(f)

Spec == Init /\ [][Next]_vars

\* Navigating: one Suggest with minLength 1, with or without an enterFn; one
\* search at a time, every key and pointer event.
NavValues == {"", "a"}

InitNav == \E ef \in BOOLEAN : OneSuggest(1, ef)

NextNav ==
  \/ \E f \in Fields, v \in NavValues : Input(f, v)
  \/ Tick
  \/ \E i \in Insts : inflight[i] = <<>> /\ TimerFire(i)
  \/ \E i \in Insts, res \in SearchResults : ResolveOK(i, 1, res)
  \/ \E i \in Insts, msg \in Errors : ResolveErr(i, 1, msg)
  \/ \E i \in Insts, res \in SearchResults, msg \in CallbackErrors :
       ResolveThrows(i, 1, res, msg)
  \/ \E f \in Fields, key \in Keys : Key(f, key)
  \/ \E f \in Fields, k \in 0..MaxItems : ClickItem(f, k)
  \/ \E f \in Fields, k \in 1..MaxItems : MouseEnter(f, k)
  \/ \E f \in Fields : ClickField(f)
  \/ ClickOutside

SpecNav == InitNav /\ [][NextNav]_vars

\* Lifecycle: a page on which no Suggest has been constructed yet;
\* constructions and teardowns interleaved with typing and the timer.
NoSuggest ==
  /\ BlankSuggest
  /\ registry = [f \in Fields |-> 0]
  /\ docListeners = 0
  /\ nextInst = 0
  /\ status = [i \in Insts |-> "none"]
  /\ field = [i \in Insts |-> 0]
  /\ minLength = [i \in Insts |-> 1]
  /\ hasEnterFn = [i \in Insts |-> FALSE]

InitLife == NoSuggest /\ IdleWidgets

LifeValues == {"", "a"}

NextLife ==
  \/ \E f \in 0..NumFields, okFn \in BOOLEAN : Construct(f, okFn, 1, FALSE)
  \/ \E i \in Insts, done \in BOOLEAN : Destroy(i, done)
  \/ \E f \in Fields, v \in LifeValues : Input(f, v)
  \/ \E f \in Fields, v \in LifeValues : TypeUnbound(f, v)
  \/ Tick
  \/ \E i \in Insts : inflight[i] = <<>> /\ TimerFire(i)

SpecLife == InitLife /\ [][NextLife]_vars

\* Two widgets: a Suggest on field 1 and another on field 2, both with
\* minLength 1 and no enterFn; one search at a time per instance, each
\* resolving with one item; typing, time and every pointer event.
InitPair ==
  /\ Blank
  /\ registry = [f \in Fields |-> IF f <= 2 THEN f ELSE 0]
  /\ docListeners = 1
  /\ nextInst = 2
  /\ status = [i \in Insts |-> IF i <= 2 THEN "live" ELSE "none"]
  /\ field = [i \in Insts |-> IF i <= 2 THEN i ELSE 0]
  /\ minLength = [i \in Insts |-> 1]
  /\ hasEnterFn = [i \in Insts |-> FALSE]

NextPair ==
  \/ \E f \in Fields, v \in NavValues : Input(f, v)
  \/ Tick
  \/ \E i \in Insts : inflight[i] = <<>> /\ TimerFire(i)
  \/ \E i \in Insts : ResolveOK(i, 1, ResultOfLen(1))
  \/ \E f \in Fields : ClickItem(f, 1)
  \/ \E f \in Fields : MouseEnter(f, 1)
  \/ \E f \in Fields : ClickField(f)
  \/ ClickOutside

SpecPair == InitPair /\ [][NextPair]_vars

\* The same two widgets, the one on field 1 used with keyboard and pointer
\* (ArrowDown, Enter, Tab, commits by click), the one on field 2 typed into
\* and searching meanwhile.
NextIso ==
  \/ \E f \in Fields, v \in NavValues : Input(f, v)
  \/ Tick
  \/ \E i \in Insts : inflight[i] = <<>> /\ TimerFire(i)
  \/ \E i \in Insts : ResolveOK(i, 1, ResultOfLen(1))
  \/ \E key \in {"ArrowDown", "Enter", "Tab"} : Key(1, key)
  \/ ClickItem(1, 1)
  \/ \E f \in Fields : ClickField(f)
  \/ ClickOutside

SpecIso == InitPair /\ [][NextIso]_vars

\* The search factory alone: calls of the built function, one at a time,
\* with every response; no Suggest is constructed.
NextAjax ==
  \/ \E sfx \in LoginSuffixes : AjaxCall(sfx)
  \/ \E result \in Responses : AjaxRespond(result)
  \/ AjaxFetchFails
  \/ AjaxReturn

SpecAjax == InitLife /\ [][NextAjax]_vars

\* The prefix highlighter alone, on every query and label within the bounds.
NextMark ==
  \/ \E query \in Texts(MaxQueryLen), label \in Texts(MaxLabelLen) :
       MarkCall(query, label)
  \/ MarkReturn

SpecMark == InitLife /\ [][NextMark]_vars

\* A button group alone, with any of its buttons active in the markup.
InitRadio ==
  /\ NoSuggest
  /\ IdleDirty
  /\ IdleItems
  /\ IdleAjax
  /\ IdleMark
  /\ IdleCopy
  /\ IdleConf
  /\ radio \in {RadioMarkup(named, A) : named \in BOOLEAN, A \in SUBSET Btns}

NextRadio ==
  \/ RadioConstruct
  \/ \E b \in Btns : RadioClick(b)
  \/ RadioDestroy

SpecRadio == InitRadio /\ [][NextRadio]_vars

\* A CopyText alone, with any settings and any elements for its selector.
InitCopy ==
  /\ NoSuggest
  /\ IdleDirty
  /\ IdleItems
  /\ IdleAjax
  /\ IdleMark
  /\ IdleRadio
  /\ IdleConf
  /\ \E copyText \in {Undefined, Str(<<>>), Str(<<"a">>)},
        copyTarget \in BOOLEAN, targets \in Matches :
       /\ copyTarget \/ targets = <<>>
       /\ copyTarget => copyText # Str(<<>>)
       /\ copy = CopyBound(copyText, copyTarget, targets)

NextCopy ==
  \/ CopyTrigger
  \/ CopyWritten
  \/ CopyWriteFails
  \/ CopyToastHidden

SpecCopy == InitCopy /\ [][NextCopy]_vars

\* A Confirmation alone, on any kind of element, with or without callbacks.
InitConf ==
  /\ NoSuggest
  /\ IdleDirty
  /\ IdleItems
  /\ IdleAjax
  /\ IdleMark
  /\ IdleRadio
  /\ IdleCopy
  /\ \E kind \in ElKinds, yesCallback \in BOOLEAN, noCallback \in BOOLEAN :
       conf = ConfBound(kind, yesCallback, noCallback)

NextConf ==
  \/ ConfTrigger
  \/ \E outcome \in CallbackOutcomes : ConfYes(outcome)
  \/ \E outcome \in CallbackOutcomes : ConfNo(outcome)
  \/ ConfDismiss
  \/ ConfHidden

SpecConf == InitConf /\ [][NextConf]_vars

\* dirtyCheck alone, in either version of Utils.js.
InitDirty ==
  /\ NoSuggest
  /\ IdleAjax
  /\ IdleMark
  /\ IdleRadio
  /\ IdleCopy
  /\ IdleConf
  /\ IdleItems
  /\ \E named \in BOOLEAN : dirty = PageLoaded(named)

NextDirty ==
  \/ DirtyCheck
  \/ DirtyChange
  \/ DirtySubmit
  \/ BeforeUnload

SpecDirty == InitDirty /\ [][NextDirty]_vars

\* A list alone, with any number of server-rendered items, with or without
\* a data-index in the markup.
InitItems ==
  /\ NoSuggest
  /\ IdleAjax
  /\ IdleMark
  /\ IdleRadio
  /\ IdleCopy
  /\ IdleConf
  /\ IdleDirty
  /\ \E n \in 0..MaxInitial, index \in {NoIndex} \cup 0..MaxInitial,
        deleteInput \in BOOLEAN :
       li = ListMarkup(n, index, deleteInput)

NextItems ==
  \/ ItemAdd
  \/ \E k \in 1..(MaxInitial + MaxAdds) : ItemAdded(k)
  \/ \E k \in 1..(MaxInitial + MaxAdds) : ItemRemove(k)
  \/ \E k \in 1..(MaxInitial + MaxAdds) : ItemRemoveTimeout(k)
  \/ \E k \in 1..(MaxInitial + MaxAdds) : ItemRemoved(k)

SpecItems == InitItems /\ [][NextItems]_vars

\* ----------------------------------------------------------- properties
SearchCalls == {k \in 1..Len(calls) : calls[k].fn = "searchFn"}
Marked(l) == HoverIdx(l) # {} \/ ActiveIdx(l) # {}

\* C1: a burst of input events is coalesced into one search.  searchFn is
\* never called twice for the same burst, never before the debounce interval
\* has passed since the last input event, and when the timeout fires with
\* the burst's final value (non-empty, at least minLength long) in the field
\* it is called exactly once, with that value.
C1_DebounceCoalescing ==
  /\ [](\A i \in Insts :
          /\ burstCalls[i] <= 1
          /\ \A k \in SearchCalls : calls[k].i = i => sinceInput[i] >= Debounce)
  /\ [][\A i \in Insts :
          (/\ TimerFire(i)
           /\ typed[i] # ""
           /\ Len(typed[i]) >= minLength[i]
           /\ value[field[i]] = typed[i])
          => /\ calls' = <<Call("searchFn", i, typed[i], 0, 0)>>
             /\ burstCalls'[i] = 1]_vars

C1_Witness ==
  \E i \in Insts :
    /\ calls = <<Call("searchFn", i, "ab", 0, 0)>>
    /\ typed[i] = "ab"
    /\ minLength[i] = 2
    /\ burstCalls[i] = 1

\* C2 as stated: once a later-dispatched search has been rendered, the
\* resolution of an earlier-dispatched search never alters the rendered list.
C2_OutOfOrderAnyInterleaving ==
  [][\A i \in Insts, k \in 1..MaxInflight, res \in SearchHits :
       (k <= Len(inflight[i]) /\ inflight[i][k].late /\ ResolveOK(i, k, res))
       => (list'[i] = list[i] /\ shown'[i] = shown[i])]_vars

\* C2 (amended): once a later-dispatched search has been rendered, the
\* resolution of an earlier-dispatched search does not alter the rendered
\* list whenever the field's value at that moment differs from the earlier
\* search's query.
C2_OutOfOrder ==
  [][\A i \in Insts, k \in 1..MaxInflight, res \in SearchHits :
       (/\ k <= Len(inflight[i])
        /\ inflight[i][k].late
        /\ value[field[i]] # inflight[i][k].query
        /\ ResolveOK(i, k, res))
       => (list'[i] = list[i] /\ shown'[i] = shown[i])]_vars

C2_Witness ==
  /\ ev.op = "resolve"
  /\ ev.late
  /\ ev.stale
  /\ shown[ev.i]
  /\ Len(list[ev.i]) > 0

\* C3: a search that resolves while the field's value differs from the query
\* captured at dispatch leaves the rendered items, the list's visibility, the
\* hover/active marks and the field value unchanged, and every other
\* in-flight search (and the pending timer) as it was.
C3_StalenessGuard ==
  [][\A i \in Insts, k \in 1..MaxInflight, res \in SearchHits :
       (/\ k <= Len(inflight[i])
        /\ value[field[i]] # inflight[i][k].query
        /\ ResolveOK(i, k, res))
       => /\ list' = list
          /\ shown' = shown
          /\ value' = value
          /\ inflight' = [inflight EXCEPT ![i] = RemoveAt(inflight[i], k)]
          /\ timers' = timers]_vars

C3_Witness ==
  /\ ev.op = "resolve"
  /\ ev.stale
  /\ shown[ev.i]
  /\ Marked(list[ev.i])
  /\ Len(inflight[ev.i]) > 0

\* C4 as stated: searchFn is never invoked by an instance on which destroy()
\* has run.
C4_DestroyCancelsDebounce ==
  \A k \in SearchCalls : status[calls[k].i] # "destroyed"

\* C5: the document click listener is installed exactly when the registry is
\* non-empty, and never more than once.
C5_SharedListener ==
  docListeners = (IF Registered = {} THEN 0 ELSE 1)

C5_Witness ==
  /\ Registered # {}
  /\ docListeners = 1
  /\ \E i \in Insts : status[i] = "destroyed"

\* C6: searchFn is only ever invoked with a non-empty query of length at
\* least minLength; a refresh with an empty field invokes clearFn (and not
\* searchFn) and leaves the list hidden and empty; a refresh with a field
\* value shorter than minLength does not invoke searchFn.
C6_DispatchPrecondition ==
  /\ [](\A k \in SearchCalls :
          calls[k].q # "" /\ Len(calls[k].q) >= minLength[calls[k].i])
  /\ [][\A i \in Insts :
          TimerFire(i) =>
            /\ value[field[i]] = "" =>
                 /\ calls' = <<Call("clearFn", i, "", 0, 0)>>
                 /\ list'[i] = <<>>
                 /\ ~shown'[i]
            /\ Len(value[field[i]]) < minLength[i] =>
                 \A k \in 1..Len(calls') : calls'[k].fn # "searchFn"]_vars

C6_Witness ==
  \E i \in Insts :
    /\ ev = Ev("timer", i, FALSE, FALSE)
    /\ value[field[i]] = "a"
    /\ minLength[i] = 2
    /\ calls = <<>>

\* C7 as stated: a debounced refresh that finds a non-empty field value
\* shorter than minLength while items are rendered clears the items and
\* hides the list.
C7_ShortQueryClears ==
  [][\A i \in Insts :
       (/\ TimerFire(i)
        /\ value[field[i]] # ""
        /\ Len(value[field[i]]) < minLength[i]
        /\ Len(list[i]) > 0
        /\ list[i][1].kind = "item")
       => (list'[i] = <<>> /\ ~shown'[i])]_vars

\* What a commit of child b of instance i (bound to field f) leaves behind.
Committed(i, f, b) ==
  /\ value'[f] = LabelFn(list[i][b].raw)
  /\ calls' = <<Call("selectFn", i, "", list[i][b].raw, b)>>
  /\ ~shown'[i]
  /\ Len(list'[i]) = Len(list[i])
  /\ \A m \in 1..Len(list[i]) :
       /\ list'[i][m].raw = list[i][m].raw
       /\ list'[i][m].active = (m = b)
       /\ m # b => ~list'[i][m].hover

\* C8: committing a rendered item b by a pointer click, by Tab, or by Enter
\* when no enterFn is configured sets the field to labelFn(b.raw), leaves b
\* the only active item and no other item hovered, hides the list and invokes
\* selectFn(b.raw, b's element) exactly once.
C8_Commit ==
  [][\A f \in Fields :
       LET i == registry[f]
       IN (i # 0 /\ shown[i] /\ Len(list[i]) > 0 /\ list[i][1].kind = "item")
          => /\ \A k \in 1..Len(list[i]) : ClickItem(f, k) => Committed(i, f, k)
             /\ (Key(f, "Tab") \/ (~hasEnterFn[i] /\ Key(f, "Enter")))
                  => \E b \in 1..Len(list[i]) : Committed(i, f, b)]_vars

C8_Witness ==
  /\ Len(calls) = 1
  /\ calls[1].fn = "selectFn"
  /\ calls[1].el = 2
  /\ list[calls[1].i][2].active
  /\ ~shown[calls[1].i]
  /\ value[field[calls[1].i]] = LabelFn(calls[1].raw)

\* The index (from 1) the claim gives for the highlight after k presses.
HoverAfter(n, dir, k) ==
  IF dir = "ArrowDown" THEN ((k - 1) % n) + 1 ELSE ((n - k) % n) + 1

TabTarget(l) ==
  IF HoverIdx(l) # {} THEN FirstOf(HoverIdx(l))
  ELSE IF ActiveIdx(l) # {} THEN FirstOf(ActiveIdx(l))
  ELSE 1

\* C11: Tab pressed while the list is open commits the hovered entry if there
\* is one, otherwise the active entry if there is one, otherwise the first
\* entry of the list.
C11_TabTarget ==
  [][\A f \in Fields :
       LET i == registry[f]
       IN (i # 0 /\ shown[i] /\ Len(list[i]) > 0 /\ Key(f, "Tab"))
          => Committed(i, f, TabTarget(list[i]))]_vars

C11_Witness ==
  /\ ev.op = "Tab"
  /\ Len(calls) = 1
  /\ calls[1].fn = "selectFn"
  /\ calls[1].el = 2
  /\ Len(list[ev.i]) = 3
  /\ ActiveIdx(list[ev.i]) = {2}
  /\ ~shown[ev.i]

C13_UnguardedErrorPath ==
  [][\A i \in Insts, k \in 1..MaxInflight, msg \in Errors :
       ResolveErr(i, k, msg)
       => /\ ~spinner'[i]
          /\ Len(list'[i]) = 1
          /\ list'[i][1].kind = "error"
          /\ list'[i][1].text = msg
          /\ value' = value]_vars

C13_Witness ==
  /\ ev.op = "reject"
  /\ ev.stale
  /\ ~spinner[ev.i]
  /\ Len(list[ev.i]) = 1
  /\ list[ev.i][1].kind = "error"
  /\ value[field[ev.i]] = "a"

\* The instances bound to field f on which destroy() has not run.
LiveOn(f) == {i \in Insts : status[i] = "live" /\ field[i] = f}

\* C14 as stated: after any sequence of constructions and destroy() calls, at
\* most one live (not torn down) instance is bound to a given field and the
\* registry maps the field to it.
C14_SingleBinding ==
  \A f \in Fields :
    /\ Cardinality(LiveOn(f)) <= 1
    /\ \A i \in LiveOn(f) : registry[f] = i

\* C15: constructing a Suggest whose searchFn option is not a function
\* registers no instance: the new object is not in the registry, it does not
\* install the document click listener, and no listener is bound for it (it
\* never arms a timeout, dispatches a search or renders anything).
C15_MissingSearchFn ==
  /\ [][\A f \in Fields :
          Construct(f, FALSE, 1, FALSE)
          => /\ status'[nextInst'] = "aborted"
             /\ nextInst' \notin {registry'[g] : g \in Fields}
             /\ docListeners' <= docListeners]_vars
  /\ [](\A i \in Insts :
          status[i] = "aborted"
          => /\ i \notin Registered
             /\ timers[i] = {}
             /\ inflight[i] = <<>>
             /\ list[i] = <<>>)

C15_Witness ==
  \E i \in Insts :
    /\ status[i] = "aborted"
    /\ field[i] # 0
    /\ i \notin Registered
    /\ value[field[i]] # ""
    /\ \E j \in Insts : status[j] = "live" /\ timers[j] # {}

\* C16 as stated: after a pointer click anywhere in the document (in a field,
\* in a suggestion list, or outside both), every registered instance whose
\* field and list do not contain the click target has its list hidden and
\* carries no hover mark.
C16_ClickOutsideClosesOthers ==
  [][\A j \in Registered :
       (\/ ClickOutside
        \/ \E f \in Fields \ {field[j]} :
              ClickField(f) \/ \E k \in 0..MaxHits : ClickItem(f, k))
       => (~shown'[j] /\ HoverIdx(list'[j]) = {})]_vars

C18_MarkUniqueness ==
  \A i \in Insts :
    /\ Cardinality(HoverIdx(list[i])) <= 1
    /\ Cardinality(ActiveIdx(list[i])) <= 1

C18_Witness ==
  \E i \in Insts :
    /\ shown[i]
    /\ Len(list[i]) = 3
    /\ HoverIdx(list[i]) = {3}
    /\ ActiveIdx(list[i]) = {1}

\* C19: a search that resolves while the field still holds its query renders
\* exactly the returned items, in the returned order, with the same length
\* and duplicates kept, each with label labelFn(raw) and markup
\* markFn(query, label, raw), and shows the list; an empty collection leaves
\* the list hidden with no rendered items.
C19_RenderPreserves ==
  [][\A i \in Insts, res \in SearchResults :
       (/\ Len(inflight[i]) >= 1
        /\ value[field[i]] = inflight[i][1].query
        /\ ResolveOK(i, 1, res))
       => IF Len(res) > 0
            THEN /\ shown'[i]
                 /\ Len(list'[i]) = Len(res)
                 /\ \A k \in 1..Len(res) :
                      /\ list'[i][k].kind = "item"
                      /\ list'[i][k].raw = res[k]
                      /\ list'[i][k].title = LabelFn(res[k])
                      /\ list'[i][k].text =
                           MarkFn(inflight[i][1].query, LabelFn(res[k]), res[k])
            ELSE /\ ~shown'[i]
                 /\ list'[i] = <<>>]_vars

C19_Witness ==
  /\ ev.op = "resolve"
  /\ ~ev.stale
  /\ shown[ev.i]
  /\ Len(list[ev.i]) = 3
  /\ list[ev.i][1].raw = list[ev.i][3].raw
  /\ list[ev.i][1].raw # list[ev.i][2].raw

\* C20: in every reachable state a visible suggestion list has at least one
\* rendered entry, and show() on an instance with no rendered entries (an
\* arrow key on the closed list, a click on the non-empty field) leaves the
\* list hidden.
C20_VisibleNonEmpty ==
  /\ [](\A i \in Insts : shown[i] => Len(list[i]) > 0)
  /\ [][\A f \in Fields :
          (/\ registry[f] # 0
           /\ list[registry[f]] = <<>>
           /\ \/ Key(f, "ArrowDown")
              \/ Key(f, "ArrowUp")
              \/ (value[f] # "" /\ ClickField(f)))
          => ~shown'[registry[f]]]_vars

C20_Witness ==
  /\ ev.op = "resolve"
  /\ ~ev.stale
  /\ list[ev.i] = <<>>
  /\ ~shown[ev.i]
  /\ value[field[ev.i]] = "a"
  /\ typed[ev.i] = "a"

\* C21 as stated: an error thrown by labelFn or markFn while a successful
\* result is being rendered is not converted into a rendered error entry.
C21_OnlySearchFailuresRendered ==
  [][\A i \in Insts, res \in SearchResults, msg \in CallbackErrors :
       ResolveThrows(i, 1, res, msg)
       => \A k \in 1..Len(list'[i]) : list'[i][k].kind # "error"]_vars

Highlighted(out) ==
  LET a == CHOOSE k \in 1..Len(out) : out[k] = "<mark>"
      b == CHOOSE k \in 1..Len(out) : out[k] = "</mark>"
  IN SubSeq(out, a + 1, b - 1)
Unmarked(out) == SelectSeq(out, LAMBDA c : c \notin {"<mark>", "</mark>"})

\* C23 as stated: mark.startsWith(query, label) highlights exactly the
\* leading query.length characters of label when label begins with query
\* (case-insensitively) and nothing when it does not; removing the tags
\* gives back label.
C23_PrefixHighlight ==
  mk.pc = "done"
  => LET n == Len(mk.query)
         begins == /\ n <= Len(mk.label)
                   /\ \A k \in 1..n :
                        ToLowerCase(mk.label)[k] = ToLowerCase(mk.query)[k]
     IN /\ Highlighted(mk.out) = IF begins THEN SubSeq(mk.label, 1, n) ELSE <<>>
        /\ Unmarked(mk.out) = mk.label

\* C24: clicking the button that is the active one of a RadioButton group
\* removes its active mark, leaves no button active and sets the hidden
\* input's value to the empty string.
C24_RadioDeselect ==
  [][\A b \in Btns :
       (radio.active = {b} /\ RadioClick(b))
       => (radio'.active = {} /\ radio'.hidden = "")]_vars

C24_Witness ==
  /\ radio.bound
  /\ radio.last = 1
  /\ radio.active = {}
  /\ radio.hidden = ""

\* C25: clicking a button that is not active, while another button of the
\* group is active, makes the clicked button the only active button and
\* sets the hidden input's value to the clicked button's value.
C25_RadioChange ==
  [][\A b \in Btns :
       (b \notin radio.active /\ radio.active # {} /\ RadioClick(b))
       => (radio'.active = {b} /\ radio'.hidden = BtnValue(b))]_vars

C25_Witness ==
  /\ radio.bound
  /\ radio.last = 2
  /\ radio.active = {2}
  /\ radio.hidden = "false"


\* ---- CopyText: the text of an element, word by word
RECURSIVE WordLen(_)
WordLen(s) == IF s = <<>> \/ IsSpace(Head(s)) THEN 0 ELSE 1 + WordLen(Tail(s))

\* The maximal runs of characters that are not whitespace, in order.
RECURSIVE Words(_)
Words(s) ==
  IF s = <<>> THEN <<>>
  ELSE IF IsSpace(Head(s)) THEN Words(Tail(s))
  ELSE <<SubSeq(s, 1, WordLen(s))>> \o Words(SubSeq(s, WordLen(s) + 1, Len(s)))

\* The texts of a, one space between each two.
RECURSIVE SpaceJoined(_)
SpaceJoined(a) ==
  IF Len(a) = 0 THEN <<>>
  ELSE IF Len(a) = 1 THEN a[1]
  ELSE SpaceJoined(SubSeq(a, 1, Len(a) - 1)) \o <<" ">> \o a[Len(a)]

\* An element's text: its form value when it has one, otherwise its
\* property with whitespace runs collapsed and trimmed.
SourceText(el) ==
  IF el.kind = "value" THEN el.text ELSE SpaceJoined(Words(el.text))

\* The text selected for the clipboard.
SelectedText(c) ==
  IF c.copyTarget
    THEN SpaceJoined([k \in 1..Len(c.targets) |-> SourceText(c.targets[k])])
  ELSE IF c.copyText.t = "string" THEN c.copyText.s
  ELSE <<>>

NothingToCopy(c) ==
  SelectedText(c) = <<>> \/ (c.copyTarget /\ c.targets = <<>>)

\* C26: when the trigger event fires on a CopyText element, the text written
\* to the clipboard is, with copyTarget set, the space-joined text of every
\* element the selector matches (the form value of an element that has one,
\* otherwise its property with whitespace runs collapsed and trimmed), and
\* the copyText setting otherwise; when that text is empty or nothing
\* matches, the clipboard is not written and no toast is shown.
C26_SourceSelection ==
  /\ [](/\ copy.clipboard \in {Undefined, Str(SelectedText(copy))}
        /\ NothingToCopy(copy)
             => (copy.clipboard = Undefined /\ ~copy.toast
                 /\ copy.pending = <<>>))
  /\ [][/\ (CopyTrigger /\ ~NothingToCopy(copy))
             => copy'.pending = Append(copy.pending, SelectedText(copy))
        /\ CopyWritten
             => (copy'.clipboard = Str(SelectedText(copy)) /\ copy'.toast)]_vars

C26_Witness ==
  /\ copy.last = "written"
  /\ copy.copyTarget
  /\ copy.targets = <<PropEl(<<"a", "\n", " ", "a">>), FormEl(<<" ">>)>>
  /\ copy.clipboard = Str(<<"a", " ", "a", " ", " ">>)
  /\ copy.toast

\* C27: for one confirmation dialog, clicking 'yes' more than once before
\* the dialog has closed triggers the guarded action (the click dispatched
\* again, the form submitted, yesCallback) at most once.
C27_YesOnce == conf.fired <= 1


\* C28: once no debounce timer is pending and every dispatched search has
\* settled (resolved or rejected, stale or current), the searching indicator
\* of the instance is hidden; a search whose result is discarded as stale
\* does not leave it shown.
C28_IndicatorClears ==
  \A i \in Insts :
    (status[i] = "live" /\ timers[i] = {} /\ inflight[i] = <<>>)
      => ~spinner[i]

\* C29: selectFn is invoked and the field is overwritten only for an entry
\* built from a raw item searchFn returned; a click, Tab or Enter that lands
\* on the error entry never sets the field from an undefined item and never
\* invokes selectFn with an undefined item.
C29_CommitTargetsItems ==
  /\ \A k \in 1..Len(calls) : calls[k].fn = "selectFn" => calls[k].raw \in Raw
  /\ \A f \in Fields : value[f] # LabelFn(0)

\* The steps of instance i that no user event causes: its timeout callback
\* and the settling of one of its searches.
Unprompted(i) ==
  \/ TimerFire(i)
  \/ \E k \in 1..MaxInflight, res \in SearchResults : ResolveOK(i, k, res)
  \/ \E k \in 1..MaxInflight, msg \in Errors : ResolveErr(i, k, msg)
  \/ \E k \in 1..MaxInflight, res \in SearchResults, msg \in CallbackErrors :
       ResolveThrows(i, k, res, msg)

\* C30: after an item is committed, the list stays hidden and the rendered
\* items stay unchanged until the next user event on that instance; neither
\* a debounce timer pending at commit time nor a search in flight at commit
\* time re-renders or re-opens the list.
C30_CommitStays ==
  /\ [](\A i \in Insts : quiet[i] => ~shown[i])
  /\ [][\A i \in Insts :
          (quiet[i] /\ Unprompted(i)) => list'[i] = list[i]]_vars


\* C31: calling destroy() on an instance that has already been torn down
\* (explicitly, or because a newer instance was bound to its field) changes
\* nothing: the newer instance stays in the registry with its wrapper and
\* list intact, and the shared dismissal listener stays installed while any
\* live instance exists.
C31_StaleDestroyHarmless ==
  [][\A i \in Insts, done \in BOOLEAN :
       (status[i] = "destroyed" /\ Destroy(i, done))
       => /\ registry' = registry
          /\ docListeners' = docListeners
          /\ domDamage' = domDamage
          /\ list' = list]_vars


\* C34: when construction aborts (field element not found, or searchFn not a
\* function), the registry, the shared-listener installation and any
\* instance previously bound to the same field are exactly as they were
\* before the constructor call.
C34_FailedConstructionInert ==
  [][\A f \in 0..NumFields, okFn \in BOOLEAN :
       (Construct(f, okFn, 1, FALSE) /\ (f = 0 \/ ~okFn))
       => /\ registry' = registry
          /\ docListeners' = docListeners
          /\ domDamage' = domDamage
          /\ \A j \in Insts : j # nextInst' => status'[j] = status[j]]_vars


\* C32: in every execution, including one where a yesCallback or noCallback
\* threw or was invalid, each later trigger event (click or submit) on the
\* guarded element has its default action prevented and shows a
\* confirmation dialog; the guarded action proceeds only as the direct
\* result of a 'yes' click.
C32_NoBypass ==
  [][ConfTrigger => (conf'.modal = "shown" /\ conf'.last = "asked")]_vars

\* C37: a click on 'yes' of a confirmation with no yesCallback makes the
\* original action of the guarded element (link or button click, form
\* submit, submit through a submit button) proceed exactly once, and the
\* event dispatched again opens no second dialog; a click on 'no' does not
\* make the action proceed.
C37_ConfirmedOnce ==
  [][/\ \A outcome \in CallbackOutcomes :
          (ConfYes(outcome) /\ ~conf.yesCallback /\ conf.kind # "other")
          => /\ conf'.fired = conf.fired + 1
             /\ ~conf'.reprompted
             /\ conf'.modal = "hiding"
     /\ \A outcome \in CallbackOutcomes :
          ConfNo(outcome) => (conf'.fired = conf.fired /\ ~conf'.reprompted)]_vars

C37_Witness ==
  /\ conf.kind = "form"
  /\ ~conf.yesCallback
  /\ conf.last = "yes"
  /\ conf.fired = 1
  /\ conf.modal = "hiding"


\* Instance j is left exactly as it was.
Untouched(j) ==
  /\ list'[j] = list[j]
  /\ shown'[j] = shown[j]
  /\ value'[field[j]] = value[field[j]]
  /\ timers'[j] = timers[j]
  /\ timeoutId'[j] = timeoutId[j]
  /\ inflight'[j] = inflight[j]
  /\ spinner'[j] = spinner[j]

\* Instance j is left as it was, but for its list being hidden and its hover
\* mark cleared.
AtMostDismissed(j) ==
  /\ shown'[j] => shown[j]
  /\ Len(list'[j]) = Len(list[j])
  /\ \A m \in 1..Len(list[j]) :
       list'[j][m] \in {list[j][m], [list[j][m] EXCEPT !.hover = FALSE]}
  /\ value'[field[j]] = value[field[j]]
  /\ timers'[j] = timers[j]
  /\ timeoutId'[j] = timeoutId[j]
  /\ inflight'[j] = inflight[j]
  /\ spinner'[j] = spinner[j]

\* An input event, a timer firing, a search resolution, a key press or a
\* commit of the instance bound to field f.
OwnEvent(f) ==
  \/ \E v \in NavValues : Input(f, v)
  \/ TimerFire(registry[f])
  \/ ResolveOK(registry[f], 1, ResultOfLen(1))
  \/ \E key \in {"Tab", "ArrowDown", "Enter"} : Key(f, key)
  \/ ClickItem(f, 1)

\* C33: input events, timer firings, search resolutions, key presses and
\* commits of one Suggest instance never change another instance's rendered
\* items, hover/active marks, field value, pending timer or searching
\* indicator; the only cross-instance effect is the shared dismissal
\* listener, which can only hide another instance's list and clear its
\* hover mark.
C33_InstanceIsolation ==
  [][\A f \in Fields, j \in Insts :
       (registry[f] # 0 /\ status[j] = "live" /\ j # registry[f])
       => /\ Untouched(j) \/ Tick \/ ~OwnEvent(f)
          /\ AtMostDismissed(j) \/ ~(ClickField(f) \/ ClickOutside)]_vars

C33_Witness ==
  /\ Len(calls) = 1
  /\ calls[1].fn = "selectFn"
  /\ calls[1].i = 1
  /\ shown[2]
  /\ Len(list[2]) = 1
  /\ timers[2] # {}
  /\ value[field[2]] = ""


\* ------------------------------------------------- keys and the closed list
\* C35: while the list is hidden, ArrowDown/ArrowUp make it visible exactly
\* when rendered items exist and never add or move a hover mark; every other
\* key (Enter and Tab included) changes no state, invokes no callback and is
\* not suppressed; with no rendered items every key is a no-op.
C35_ClosedListKeys ==
  [][\A f \in Fields, key \in Keys :
       LET i == registry[f]
       IN (i # 0 /\ ~shown[i] /\ Key(f, key))
          => /\ shown' = [shown EXCEPT ![i] =
                            key \in {"ArrowDown", "ArrowUp"} /\ Len(list[i]) > 0]
             /\ list' = list
             /\ value' = value
             /\ spinner' = spinner
             /\ inflight' = inflight
             /\ timers' = timers
             /\ timeoutId' = timeoutId
             /\ calls' = <<>>
             /\ ~ev'.sup]_vars

C35_Witness ==
  /\ ev.key = "ArrowDown"
  /\ ~ev.sup
  /\ shown[ev.i]
  /\ Len(list[ev.i]) >= 2
  /\ ActiveIdx(list[ev.i]) # {}
  /\ HoverIdx(list[ev.i]) = {}

\* C36: a keydown of Enter or Tab has its default effect and its propagation
\* suppressed if and only if the list is visible when the key is pressed,
\* whether or not an item ends up committed.
C36_SuppressedWhileOpen ==
  [][\A f \in Fields, key \in {"Enter", "Tab"} :
       (registry[f] # 0 /\ Key(f, key))
       => (ev'.sup <=> shown[registry[f]])]_vars

C36_Witness ==
  /\ ev.key = "Enter"
  /\ ev.sup
  /\ Len(calls) = 1
  /\ calls[1].fn = "enterFn"
  /\ calls[1].el = 0
  /\ shown[ev.i]


\* ------------------------------------------------------- dirty-check guard
\* C38: once dirtyCheck() has been called, one or more times, the
\* beforeunload guard is registered, at most once, exactly when at least one
\* change event has occurred since the most recent submit event: not before
\* the first change event and not after a submit with no later change.
C38_DirtyGuard ==
  dirty.changeListeners > 0
  => /\ dirty.beforeunload <= 1
     /\ dirty.beforeunload = 1 <=> dirty.changes > 0

C38_Witness ==
  /\ ~dirty.named
  /\ dirty.changeListeners >= 2
  /\ dirty.last = "change"
  /\ dirty.prompts >= 1
  /\ dirty.changes = 1
  /\ dirty.beforeunload = 1

\* --------------------------------------------------------- list item index
\* C39: every item added to a list by addItem receives an index that no
\* other item added to the list has received, one more than the index of the
\* add before it, also when add is clicked again before earlier add or
\* remove transitions have ended and however many items were removed between.
C39_UniqueIndices ==
  /\ \A j \in 1..Len(li.given), k \in 1..Len(li.given) :
       j # k => li.given[j] # li.given[k]
  /\ \A k \in 1..(Len(li.given) - 1) : li.given[k + 1] = li.given[k] + 1

C39_Witness ==
  /\ Len(li.given) = 3
  /\ Len(li.children) = 2
  /\ \A k \in 1..2 : li.children[k].stage = "adding"
  /\ li.last = "add"


\* -------------------------------------------------- RadioButton consistency
\* C40: after construction on any initial markup and after any sequence of
\* button clicks, at most one button of the group carries the active class,
\* and the hidden input's value is the value of the active button, or the
\* empty string when no button is active.
C40_RadioConsistent ==
  radio.bound
  => /\ Cardinality(radio.active) <= 1
     /\ \A b \in radio.active : radio.hidden = BtnValue(b)
     /\ radio.active = {} => radio.hidden = ""

====
